---- MODULE Spec2Model ----
(***************************************************************************)
(* Model of yt/frontends/boxlib/io.py: the Boxlib fluid reader             *)
(* (IOHandlerBoxlib._read_fluid_selection over _read_chunk_data), the      *)
(* Boxlib particle reader (_read_particle_selection over _read_particles)  *)
(* and the Orion text particle reader (IOHandlerOrion).                    *)
(*                                                                         *)
(* A file is modelled by its byte positions: a block read is recorded by   *)
(* the byte it starts at and the number of bytes it takes, so two reads    *)
(* return the same data exactly when they cover the same bytes.            *)
(***************************************************************************)
EXTENDS Integers, Sequences, FiniteSets, TLC

(***************************************************************************)
(* Bounds of the model.                                                    *)
(***************************************************************************)
MaxChunks == 2
MaxGridsPerChunk == 2
MaxReq == 2
BPR == 2

(***************************************************************************)
(* The state: the arguments, locals and results of a fluid read, of a      *)
(* Boxlib particle read, and the IOHandlerOrion instance with its calls.   *)
(***************************************************************************)
VARIABLES
  chunks,      \* the chunks handed to _read_fluid_selection: lists of grid ids
  fields,      \* the requested fields, a list of (ftype, fname)
  selector,    \* the selector: number of cells it selects in each grid
  size,        \* the size argument
  fpc,         \* position of _read_fluid_selection, or the exception raised
  ci,          \* number of chunks consumed
  ind,         \* the global output index
  rv,          \* field -> output array (-1: never written)
  nwritten,    \* field -> number of values written into the output array
  wlog,        \* the select calls made: grid, field, start index, count
  reads,       \* the blocks read from disk by _read_chunk_data
  unclosed     \* handles opened by the last _read_chunk_data and still open

fluidVars == <<chunks, fields, selector, size, fpc, ci, ind, rv,
               nwritten, wlog, reads, unclosed>>

VARIABLES
  pdata,       \* grid -> particle type -> NumberOfParticles
  dimensionality,
  pchunks,     \* the chunks handed to _read_particle_selection
  pfields,     \* the requested fields, a list of (ftype, fname)
  pselector,   \* the selector: the particles (by rank in their set) it keeps
  ppc,         \* position of _read_particle_selection, or the exception
  pci,         \* number of chunks consumed
  prv,         \* field -> accumulated array
  produced,    \* field -> the arrays _read_particles returned, in order
  pcalls,      \* the _read_particles calls made and how each ended
  popen        \* particle file handles opened and not closed

partVars == <<pdata, dimensionality, pchunks, pfields, pselector, ppc, pci,
              prv, produced, pcalls, popen>>

VARIABLES
  starExists,          \* output_dir/StarParticles exists
  cached_lines,        \* self._cached_lines is set
  particle_filename_,  \* self._particle_filename
  particle_index_set,  \* self._particle_field_index is set
  lineReads,           \* f.readlines() calls made by _read_particles
  resolves,            \* times the particle file path was resolved
  parses,              \* times parse_orion_sinks was called
  oopen,               \* handles opened by _read_particles and not closed
  oneeded,             \* some call so far had a grid with particles
  ocalls,              \* number of calls made on the instance
  olast                \* the last call and how it ended

orionVars == <<starExists, cached_lines, particle_filename_,
               particle_index_set, lineReads, resolves, parses, oopen,
               oneeded, ocalls, olast>>

vars == <<fluidVars, partVars, orionVars>>

(***************************************************************************)
(* Generic helpers.                                                        *)
(***************************************************************************)
InSeq(x, s) == \E i \in 1..Len(s) : s[i] = x

Range(s) == {s[i] : i \in 1..Len(s)}

NoDup(s) == \A i, j \in 1..Len(s) : i # j => s[i] # s[j]

SeqsUpTo(S, n) == UNION {[1..k -> S] : k \in 0..n}

\* the sub-lists of s of at most n elements, in the order of s
SubLists(s, n) ==
  {t \in SeqsUpTo(Range(s), n) :
     \A i, j \in 1..Len(t) :
        i < j => \E a, b \in 1..Len(s) : a < b /\ s[a] = t[i] /\ s[b] = t[j]}

RECURSIVE Flatten(_)
Flatten(ss) == IF Len(ss) = 0 THEN <<>> ELSE Head(ss) \o Flatten(Tail(ss))

EmptyMap == [x \in {} |-> 0]

Without(f, k) == [x \in (DOMAIN f) \ {k} |-> f[x]]

(***************************************************************************)
(* The dataset: the on-disk field order and the grids of the index.        *)
(* A grid has an id, a file path ("None" for a grid without on-disk data), *)
(* the byte offset of its data block and its number of active cells.       *)
(***************************************************************************)
FieldOrder == << <<"boxlib", "density">>, <<"boxlib", "temperature">>,
                 <<"boxlib", "pressure">> >>

ForeignField == <<"gas", "density">>

NumFields == Len(FieldOrder)

GridIds == 1..4

GridCells == <<2, 1, 1, 1>>

GridFile == <<"f1", "f1", "None", "f2">>

\* grid 2 is the first block of f1 and grid 1 follows it; grid 4 starts
\* after a header of one item in f2
GridOffset == <<NumFields * GridCells[2] * BPR, 0, 0, BPR>>

Grid(g) == [id |-> g, filename |-> GridFile[g], _offset |-> GridOffset[g],
            count |-> GridCells[g]]

(***************************************************************************)
(* _read_chunk_data                                                        *)
(***************************************************************************)
\* for g in chunk.objs: if g.filename is None: continue;
\* grids_by_file[g.filename].append(g)
GridsByFile(objs, fn) == SelectSeq(objs, LAMBDA g : Grid(g).filename = fn)

\* the keys of grids_by_file, in insertion order
RECURSIVE FileKeys(_, _)
FileKeys(objs, acc) ==
  IF Len(objs) = 0 THEN acc
  ELSE LET fn == Grid(Head(objs)).filename
       IN FileKeys(Tail(objs),
                   IF fn = "None" \/ InSeq(fn, acc) THEN acc
                   ELSE Append(acc, fn))

\* grids.sort(key = lambda a: a._offset): a stable sort of the per-file list
RECURSIVE InsertByOffset(_, _)
InsertByOffset(g, s) ==
  IF Len(s) = 0 THEN <<g>>
  ELSE IF Grid(g)._offset < Grid(Head(s))._offset THEN <<g>> \o s
       ELSE <<Head(s)>> \o InsertByOffset(g, Tail(s))

RECURSIVE SortByOffset(_)
SortByOffset(s) ==
  IF Len(s) = 0 THEN <<>>
  ELSE InsertByOffset(s[Len(s)], SortByOffset(SubSeq(s, 1, Len(s) - 1)))

\* WalkFields without "local_offset = 0" after a field is read
RECURSIVE WalkFields_NoReset(_, _, _, _, _, _)
WalkFields_NoReset(k, tell, local_offset, count, flds, blocks) ==
  IF k > Len(FieldOrder) THEN [tell |-> tell, blocks |-> blocks]
  ELSE IF InSeq(FieldOrder[k], flds)
       THEN LET pos == tell + local_offset
                nb == count * BPR
            IN WalkFields_NoReset(k + 1, pos + nb, local_offset, count, flds,
                                  blocks @@ (FieldOrder[k] :>
                                               [start |-> pos, nbytes |-> nb]))
       ELSE WalkFields_NoReset(k + 1, tell, local_offset + count * BPR,
                               count, flds, blocks)

\* the loop over self.ds.index.field_order for one grid: tell is the file
\* cursor, local_offset the pending relative seek
RECURSIVE WalkFields(_, _, _, _, _, _)
WalkFields(k, tell, local_offset, count, flds, blocks) ==
  IF k > Len(FieldOrder) THEN [tell |-> tell, blocks |-> blocks]
  ELSE IF InSeq(FieldOrder[k], flds)
       THEN LET pos == tell + local_offset
                nb == count * BPR
            IN WalkFields(k + 1, pos + nb, 0, count, flds,
                          blocks @@ (FieldOrder[k] :>
                                       [start |-> pos, nbytes |-> nb]))
       ELSE WalkFields(k + 1, tell, local_offset + count * BPR, count, flds,
                       blocks)

\* the loop over the sorted grids of one open file
RECURSIVE ReadGrids(_, _, _, _)
ReadGrids(grids, tell, flds, data) ==
  IF Len(grids) = 0 THEN data
  ELSE LET g == Grid(Head(grids))
           local_offset == g._offset - tell
           w == WalkFields(1, tell, local_offset, g.count, flds, EmptyMap)
       IN ReadGrids(Tail(grids), w.tell, flds,
                    [x \in (DOMAIN data) \cup {g.id} |->
                       IF x = g.id THEN w.blocks ELSE data[x]])

\* the loop over the files: opened collects the handles opened and never
\* closed by the function
RECURSIVE ReadFiles(_, _, _, _, _)
ReadFiles(files, objs, flds, miss, st) ==
  IF Len(files) = 0 THEN st
  ELSE LET fn == Head(files)
           grids == SortByOffset(GridsByFile(objs, fn))
       IN IF fn \in miss
          THEN [st EXCEPT !.exc = "IOError"]
          ELSE ReadFiles(Tail(files), objs, flds, miss,
                         [st EXCEPT !.opened = @ \cup {fn},
                                    !.data = ReadGrids(grids, 0, flds, @)])

\* _read_chunk_data sorting chunk.objs itself instead of the per-file lists
ReadChunkData_SortsChunk(objs, flds, miss) ==
  LET sorted == SortByOffset(objs)
      st0 == [data |-> EmptyMap, opened |-> {}, exc |-> "none",
              objs |-> sorted]
  IN IF Len(objs) = 0 THEN st0
     ELSE ReadFiles(FileKeys(sorted, <<>>), sorted, flds, miss, st0)

ReadChunkData(objs, flds, miss) ==
  LET st0 == [data |-> EmptyMap, opened |-> {}, exc |-> "none", objs |-> objs]
  IN IF Len(objs) = 0 THEN st0
     ELSE ReadFiles(FileKeys(objs, <<>>), objs, flds, miss, st0)

\* the blocks held by a data dictionary, as read records
BlocksOf(data) ==
  UNION {{[grid |-> g, file |-> Grid(g).filename, field |-> f,
            start |-> data[g][f].start, nbytes |-> data[g][f].nbytes] :
              f \in DOMAIN data[g]} : g \in DOMAIN data}

(***************************************************************************)
(* _read_fluid_selection                                                   *)
(***************************************************************************)
\* g.select(selector, ds, rv[field], ind): writes the selected cells of the
\* block at dest[ind : ind + nd] and returns nd
Select(g, block, dest, at) ==
  LET nd == selector[g]
  IN [nd |-> nd,
      exc |-> IF at + nd > Len(dest) THEN "ValueError" ELSE "none",
      dest |-> [i \in 1..Len(dest) |->
                  IF i > at /\ i <= at + nd THEN block.start ELSE dest[i]]]

\* for field in fields: ds = data[g.id].pop(field); nd = g.select(...)
RECURSIVE SelectFields(_, _, _, _)
SelectFields(k, g, flds, st) ==
  IF k > Len(flds) \/ st.exc # "none" THEN st
  ELSE LET f == flds[k]
       IN IF g \notin DOMAIN st.data \/ f \notin DOMAIN st.data[g]
          THEN [st EXCEPT !.exc = "KeyError"]
          ELSE LET s == Select(g, st.data[g][f], st.rv[f], st.ind)
               IN SelectFields(k + 1, g, flds,
                    [st EXCEPT !.data[g] = Without(@, f),
                               !.nd = s.nd,
                               !.exc = s.exc,
                               !.rv[f] = IF s.exc = "none" THEN s.dest ELSE @,
                               !.nwritten[f] =
                                  IF s.exc = "none" THEN @ + s.nd ELSE @,
                               !.wlog = Append(@, [grid |-> g, field |-> f,
                                                   start |-> st.ind,
                                                   nd |-> s.nd])])

\* the grid loop without "ind += nd"
AfterFields_NoAdvance(g, st) ==
  IF st.exc # "none" THEN st
  ELSE IF st.nd = -1 THEN [st EXCEPT !.exc = "NameError"]
  ELSE IF g \notin DOMAIN st.data THEN [st EXCEPT !.exc = "KeyError"]
  ELSE [st EXCEPT !.data = Without(@, g)]

\* ind += nd; data.pop(g.id)
AfterFields(g, st) ==
  IF st.exc # "none" THEN st
  ELSE IF st.nd = -1 THEN [st EXCEPT !.exc = "NameError"]
  ELSE IF g \notin DOMAIN st.data
       THEN [st EXCEPT !.ind = @ + st.nd, !.exc = "KeyError"]
  ELSE [st EXCEPT !.ind = @ + st.nd, !.data = Without(@, g)]

\* for g in chunk.objs
RECURSIVE SelectGrids(_, _, _)
SelectGrids(objs, flds, st) ==
  IF Len(objs) = 0 \/ st.exc # "none" THEN st
  ELSE SelectGrids(Tail(objs), flds,
                   AfterFields(Head(objs),
                               SelectFields(1, Head(objs), flds, st)))

TotalSelected(cs, sel) ==
  LET gs == Flatten(cs)
      RECURSIVE Sum(_)
      Sum(i) == IF i = 0 THEN 0 ELSE sel[gs[i]] + Sum(i - 1)
  IN Sum(Len(gs))

ChunkSet == {s \in SeqsUpTo(GridIds, MaxGridsPerChunk) : NoDup(s)}

ChunkLists == {cs \in SeqsUpTo(ChunkSet, MaxChunks) : NoDup(Flatten(cs))}

\* the requests: up to MaxReq fluid fields in on-disk order, all the
\* fields, a request in another order, and a request that names a field of
\* another type
FieldRequests ==
  SubLists(FieldOrder, MaxReq)
    \cup {FieldOrder, <<FieldOrder[3], FieldOrder[1]>>,
          <<FieldOrder[1], ForeignField>>}

\* the sets of files of a chunk whose open fails
MissingFiles(objs) == {{}} \cup {{"f2"} : g \in {x \in Range(objs) : GridFile[x] = "f2"}}

\* a selector takes no cell or every cell of a grid, and no cell of a grid
\* without on-disk data
Selectors ==
  {s \in [GridIds -> 0..2] :
     \A g \in GridIds :
        /\ s[g] \in {0, GridCells[g]}
        /\ GridFile[g] = "None" => s[g] = 0}

InitFluid ==
  /\ chunks \in ChunkLists
  /\ fields \in FieldRequests
  /\ selector \in Selectors
  /\ size = TotalSelected(chunks, selector)
  /\ fpc = "start"
  /\ ci = 0
  /\ ind = 0
  /\ rv = EmptyMap
  /\ nwritten = EmptyMap
  /\ wlog = <<>>
  /\ reads = {}
  /\ unclosed = {}

\* lines 33-42: the field type check and the allocation of the outputs
FluidStart ==
  /\ fpc = "start"
  /\ IF \E i \in 1..Len(fields) : fields[i][1] # "boxlib"
     THEN /\ fpc' = "NotImplementedError"
          /\ UNCHANGED <<rv, nwritten>>
     ELSE /\ fpc' = "loop"
          /\ rv' = [f \in Range(fields) |-> [i \in 1..size |-> -1]]
          /\ nwritten' = [f \in Range(fields) |-> 0]
  /\ UNCHANGED <<chunks, fields, selector, size, ci, ind, wlog, reads,
                 unclosed>>
  /\ UNCHANGED <<partVars, orionVars>>

\* lines 43-50: one iteration of the loop over the chunks. A handle that
\* _read_chunk_data leaves open is closed only if the runtime happens to
\* finalize the unreferenced file object (collected).
FluidChunk ==
  /\ fpc = "loop"
  /\ ci < Len(chunks)
  /\ \E collected \in BOOLEAN, missing \in MissingFiles(chunks[ci + 1]) :
     \E r \in {ReadChunkData(chunks[ci + 1], fields, missing)} :
     \E st \in {SelectGrids(r.objs, fields,
                             [data |-> r.data, ind |-> ind, rv |-> rv,
                              nwritten |-> nwritten, wlog |-> wlog,
                              nd |-> -1, exc |-> r.exc])} :
          /\ unclosed' = IF collected THEN {} ELSE r.opened
          /\ reads' = reads \cup BlocksOf(r.data)
          /\ chunks' = [chunks EXCEPT ![ci + 1] = r.objs]
          /\ ind' = st.ind
          /\ rv' = st.rv
          /\ nwritten' = st.nwritten
          /\ wlog' = st.wlog
          /\ fpc' = IF st.exc = "none" THEN "loop" ELSE st.exc
          /\ ci' = ci + 1
  /\ UNCHANGED <<fields, selector, size>>
  /\ UNCHANGED <<partVars, orionVars>>

\* line 51: return rv
FluidReturn ==
  /\ fpc = "loop"
  /\ ci = Len(chunks)
  /\ fpc' = "returned"
  /\ UNCHANGED <<chunks, fields, selector, size, ci, ind, rv, nwritten,
                 wlog, reads, unclosed>>
  /\ UNCHANGED <<partVars, orionVars>>

NextFluid == FluidStart \/ FluidChunk \/ FluidReturn

(***************************************************************************)
(* The Boxlib particle reader.  A particle set of a grid is a block of     *)
(* npart * num_int integers followed by npart * num_real reals, at a byte  *)
(* offset of the particle file of its type.  An item read from a file is   *)
(* modelled by the file and the byte it starts at.                         *)
(***************************************************************************)
MaxPart == 2
MaxPChunks == 2
MaxPReq == 2

PGridIds == 1..2

PTypes == {"io", "tracer"}

\* self.ds.particle_unions: union type -> its subtypes in declared order
particle_unions == [all |-> <<"io", "tracer">>]

\* pheader.known_int_fields and pheader.known_real_fields, by column
known_int_fields == <<"particle_id", "particle_cpu">>

known_real_fields == <<"particle_position_x", "particle_position_y",
                       "particle_position_z", "particle_mass">>

num_int == Len(known_int_fields)

num_real == Len(known_real_fields)

IntWidth == 4

RealWidth == 8

\* pheader.particle_int_dtype.itemsize: the integers of one particle
IntRecordSize == num_int * IntWidth

\* grid._pdata[ftype]["particle_filename"] and ["offset"]: the sets of the
\* grids follow each other in the file of their type
ParticleFilename(g, ftype) == ftype

ParticleOffset(g, ftype) ==
  (g - 1) * MaxPart * (IntRecordSize + num_real * RealWidth)

\* np.fromfile(f, dtype, n) at byte pos
FromFile(file, pos, width, n) == [i \in 1..n |-> <<file, pos + (i - 1) * width>>]

\* a[k::n], k counted from 0
Stride(a, k, n) ==
  IF k >= Len(a) THEN <<>>
  ELSE [i \in 1..((Len(a) - k + n - 1) \div n) |-> a[k + (i - 1) * n + 1]]

\* a[mask]
RECURSIVE ApplyMask(_, _)
ApplyMask(a, mask) ==
  IF Len(a) = 0 THEN <<>>
  ELSE (IF Head(mask) THEN <<Head(a)>> ELSE <<>>)
         \o ApplyMask(Tail(a), Tail(mask))

\* selector.select_points(x, y, z, 0.0): None when no point is selected
SelectPoints(sel, x, y, z) ==
  [none |-> \A i \in 1..Len(x) : i \notin sel,
   mask |-> [i \in 1..Len(x) |-> i \in sel]]

IndexOf(name, names) == CHOOSE i \in 1..Len(names) : names[i] = name

\* the position columns and the mask, read by both branches
Positions(g, ftype) ==
  LET npart == pdata[g][ftype]
      fn == ParticleFilename(g, ftype)
      offset == ParticleOffset(g, ftype)
      rdata == FromFile(fn, offset + IntRecordSize * npart, RealWidth,
                        num_real * npart)
      x == Stride(rdata, 0, num_real)
      y == Stride(rdata, 1, num_real)
      z == IF dimensionality = 2
           THEN [i \in 1..Len(y) |-> <<"mid", g>>]
           ELSE Stride(rdata, 2, num_real)
  IN [rdata |-> rdata, sp |-> SelectPoints(pselector, x, y, z)]

\* IOHandlerBoxlib._read_particles: kind is "array" for a returned array,
\* "None" when the function falls off its end
ReadParticles(g, ftype, name) ==
  LET npart == pdata[g][ftype]
      fn == ParticleFilename(g, ftype)
      offset == ParticleOffset(g, ftype)
  IN IF npart = 0
     THEN [kind |-> "array", value |-> <<>>, opened |-> 0, closed |-> 0]
     ELSE IF InSeq(name, known_int_fields)
     THEN LET i0 == IndexOf(name, known_int_fields) - 1
              p == Positions(g, ftype)
              idata == FromFile(fn, offset, IntWidth, num_int * npart)
              data == Stride(idata, i0, num_int)
          IN [kind |-> "array",
              value |-> IF p.sp.none THEN <<>>
                        ELSE ApplyMask(data, p.sp.mask),
              opened |-> 1, closed |-> 1]
     ELSE IF InSeq(name, known_real_fields)
     THEN LET i0 == IndexOf(name, known_real_fields) - 1
              p == Positions(g, ftype)
              data == Stride(p.rdata, i0, num_real)
          IN [kind |-> "array",
              value |-> IF p.sp.none THEN <<>>
                        ELSE ApplyMask(data, p.sp.mask),
              opened |-> 1, closed |-> 1]
     ELSE [kind |-> "None", value |-> <<>>, opened |-> 0, closed |-> 0]

\* the accumulation appending the new array instead of prepending it
ReadAndConcatenate_Append(g, key, ftype, st) ==
  LET r == ReadParticles(g, ftype, key[2])
      call == [grid |-> g, ftype |-> ftype, name |-> key[2],
               npart |-> pdata[g][ftype], kind |-> r.kind,
               len |-> Len(r.value)]
  IN IF r.kind = "None"
     THEN [st EXCEPT !.exc = "ValueError",
                     !.calls = @ \cup {call}]
     ELSE [st EXCEPT !.rv[key] = @ \o r.value,
                     !.produced[key] =
                        Append(@, [grid |-> g, ftype |-> ftype,
                                   value |-> r.value]),
                     !.calls = @ \cup {call},
                     !.open = @ + r.opened - r.closed]

\* data = self._read_particles(grid, selector, ftype, fname)
\* rv[ftype, fname] = np.concatenate((data, rv[ftype, fname]))
ReadAndConcatenate(g, key, ftype, st) ==
  LET r == ReadParticles(g, ftype, key[2])
      call == [grid |-> g, ftype |-> ftype, name |-> key[2],
               npart |-> pdata[g][ftype], kind |-> r.kind,
               len |-> Len(r.value)]
  IN IF r.kind = "None"
     THEN [st EXCEPT !.exc = "ValueError",
                     !.calls = @ \cup {call}]
     ELSE [st EXCEPT !.rv[key] = r.value \o @,
                     !.produced[key] =
                        Append(@, [grid |-> g, ftype |-> ftype,
                                   value |-> r.value]),
                     !.calls = @ \cup {call},
                     !.open = @ + r.opened - r.closed]

\* for subtype in unions[ftype]
RECURSIVE SubtypeLoop(_, _, _, _)
SubtypeLoop(subtypes, g, key, st) ==
  IF Len(subtypes) = 0 \/ st.exc # "none" THEN st
  ELSE SubtypeLoop(Tail(subtypes), g, key,
                   ReadAndConcatenate(g, key, Head(subtypes), st))

\* for ftype, fname in fields
RECURSIVE PFieldLoop(_, _, _)
PFieldLoop(flds, g, st) ==
  IF Len(flds) = 0 \/ st.exc # "none" THEN st
  ELSE LET key == Head(flds)
       IN PFieldLoop(Tail(flds), g,
            IF key[1] \in DOMAIN particle_unions
            THEN SubtypeLoop(particle_unions[key[1]], g, key, st)
            ELSE ReadAndConcatenate(g, key, key[1], st))

\* for grid in chunk.objs
RECURSIVE PGridLoop(_, _, _)
PGridLoop(objs, flds, st) ==
  IF Len(objs) = 0 \/ st.exc # "none" THEN st
  ELSE PGridLoop(Tail(objs), flds, PFieldLoop(flds, Head(objs), st))

PChunkSet == {s \in SeqsUpTo(PGridIds, Cardinality(PGridIds)) : NoDup(s)}

PChunkLists == {cs \in SeqsUpTo(PChunkSet, MaxPChunks) : NoDup(Flatten(cs))}

\* particle_momentum is in neither field table of the header
PFieldKeys == << <<"io", "particle_cpu">>, <<"all", "particle_mass">>,
                <<"all", "particle_momentum">> >>

PFieldRequests == SubLists(PFieldKeys, MaxPReq)

\* the particle counts of a grid
PSets == {d \in [PTypes -> 0..MaxPart] : d["tracer"] <= 1}

\* a selector keeps no particle, the first, the last or all of a set
PSelectors == {{}, {1}, {MaxPart}, 1..MaxPart}

InitPart ==
  /\ pdata \in [PGridIds -> PSets]
  /\ dimensionality \in {2, 3}
  /\ pchunks \in PChunkLists
  /\ pfields \in PFieldRequests
  /\ pselector \in PSelectors
  /\ ppc = "loop"
  /\ pci = 0
  /\ prv = [f \in Range(pfields) |-> <<>>]
  /\ produced = [f \in Range(pfields) |-> <<>>]
  /\ pcalls = {}
  /\ popen = 0

\* lines 90-103: one iteration of the loop over the chunks
ParticleChunk ==
  /\ ppc = "loop"
  /\ pci < Len(pchunks)
  /\ \E st \in {PGridLoop(pchunks[pci + 1], pfields,
                          [rv |-> prv, produced |-> produced,
                           calls |-> pcalls, open |-> popen,
                           exc |-> "none"])} :
       /\ prv' = st.rv
       /\ produced' = st.produced
       /\ pcalls' = st.calls
       /\ popen' = st.open
       /\ ppc' = IF st.exc = "none" THEN "loop" ELSE st.exc
       /\ pci' = pci + 1
  /\ UNCHANGED <<pdata, dimensionality, pchunks, pfields, pselector>>
  /\ UNCHANGED <<fluidVars, orionVars>>

\* line 104: return rv
ParticleReturn ==
  /\ ppc = "loop"
  /\ pci = Len(pchunks)
  /\ ppc' = "returned"
  /\ UNCHANGED <<pdata, dimensionality, pchunks, pfields, pselector, pci,
                 prv, produced, pcalls, popen>>
  /\ UNCHANGED <<fluidVars, orionVars>>

NextPart == ParticleChunk \/ ParticleReturn

(***************************************************************************)
(* The Orion text particle reader.  The particle file is a list of lines,  *)
(* each a list of entries; line 0 is the header and every other line is    *)
(* one particle.  The instance keeps the line cache and the memoized       *)
(* particle filename and field index.                                      *)
(***************************************************************************)
MaxOCalls == 2
MaxOChunks == 2
MaxOGridsPerChunk == 2

OGridIds == 1..3

\* grid.NumberOfParticles and grid._particle_line_numbers
OGridLines == << <<>>, <<1>>, <<2, 3>> >>

NumberOfParticles(g) == Len(OGridLines[g])

\* the entries of the lines of the particle file
OrionLines == << <<3>>, <<11, 12, 13>>, <<21, 22, 23>>, <<31, 32, 33>> >>

OFieldNames == {"particle_mass", "particle_position_x", "particle_id"}

\* parse_orion_sinks(fn): the column of each field of the particle file
ParseOrionSinks(fn) == [particle_mass |-> 0, particle_position_x |-> 1]

Instance == [cached |-> cached_lines, filename |-> particle_filename_,
             index_set |-> particle_index_set, lineReads |-> lineReads,
             resolves |-> resolves, parses |-> parses, open |-> oopen,
             needed |-> oneeded]

\* the particle_filename property
PropParticleFilename(inst) ==
  LET fn == IF starExists THEN "StarParticles" ELSE "SinkParticles"
  IN [inst EXCEPT !.filename = fn, !.resolves = @ + 1]

\* the particle_field_index property
PropParticleFieldIndex(inst) ==
  LET i1 == PropParticleFilename(inst)
  IN [inst |-> [i1 EXCEPT !.parses = @ + 1, !.index_set = TRUE],
      index |-> ParseOrionSinks(i1.filename)]

\* for num in grid._particle_line_numbers: particles.append(read(line, field))
RECURSIVE ReadLines(_, _, _)
ReadLines(nums, field, st) ==
  IF Len(nums) = 0 \/ st.exc # "none" THEN st
  ELSE IF Head(nums) >= Len(OrionLines)
       THEN [st EXCEPT !.exc = "IndexError"]
  ELSE LET line == OrionLines[Head(nums) + 1]
           pi == PropParticleFieldIndex(st.inst)
       IN ReadLines(Tail(nums), field,
            IF field \notin DOMAIN pi.index
            THEN [st EXCEPT !.inst = pi.inst, !.exc = "KeyError"]
            ELSE [st EXCEPT !.inst = pi.inst,
                            !.particles =
                               Append(@, line[pi.index[field] + 1])])

\* _read_particles without "self._cached_lines = lines"
OrionReadParticles_NoCache(inst, g, field) ==
  LET st0 == [inst |-> inst, particles |-> <<>>, exc |-> "none"]
  IN IF NumberOfParticles(g) = 0 THEN st0
     ELSE IF inst.cached
          THEN ReadLines(OGridLines[g], field,
                         [st0 EXCEPT !.inst.needed = TRUE])
          ELSE LET i1 == PropParticleFilename(inst)
                   i2 == [i1 EXCEPT !.open = @ + 1, !.lineReads = @ + 1,
                                    !.needed = TRUE]
                   st == ReadLines(OGridLines[g], field,
                                   [st0 EXCEPT !.inst = i2])
               IN [st EXCEPT !.inst.open = @ - 1]

\* IOHandlerOrion._read_particles
OrionReadParticles(inst, g, field) ==
  LET st0 == [inst |-> inst, particles |-> <<>>, exc |-> "none"]
  IN IF NumberOfParticles(g) = 0 THEN st0
     ELSE IF inst.cached
          THEN ReadLines(OGridLines[g], field,
                         [st0 EXCEPT !.inst.needed = TRUE])
          ELSE LET i1 == PropParticleFilename(inst)
                   i2 == [i1 EXCEPT !.open = @ + 1, !.lineReads = @ + 1,
                                    !.cached = TRUE, !.needed = TRUE]
                   st == ReadLines(OGridLines[g], field,
                                   [st0 EXCEPT !.inst = i2])
               IN [st EXCEPT !.inst.open = @ - 1]

\* the loop over the fields of the GridSelector path
RECURSIVE OrionGridFields(_, _, _)
OrionGridFields(flds, g, st) ==
  IF Len(flds) = 0 \/ st.exc # "none" THEN st
  ELSE LET r == OrionReadParticles(st.inst, g, Head(flds)[2])
       IN OrionGridFields(Tail(flds), g,
            [st EXCEPT !.inst = r.inst, !.exc = r.exc,
                       !.greads = Append(@, <<g, Head(flds)[2]>>),
                       !.rv = IF r.exc = "none"
                              THEN [k \in DOMAIN @ \cup {Head(flds)} |->
                                      IF k = Head(flds) THEN r.particles
                                      ELSE @[k]]
                              ELSE @])

\* the loops of the general path
RECURSIVE OrionFieldLoop(_, _, _)
OrionFieldLoop(flds, g, st) ==
  IF Len(flds) = 0 \/ st.exc # "none" THEN st
  ELSE LET r == OrionReadParticles(st.inst, g, Head(flds)[2])
       IN OrionFieldLoop(Tail(flds), g,
            [st EXCEPT !.inst = r.inst, !.exc = r.exc,
                       !.greads = Append(@, <<g, Head(flds)[2]>>),
                       !.rv[Head(flds)] = IF r.exc = "none"
                                          THEN r.particles \o @ ELSE @])

RECURSIVE OrionGridLoop(_, _, _)
OrionGridLoop(objs, flds, st) ==
  IF Len(objs) = 0 \/ st.exc # "none" THEN st
  ELSE OrionGridLoop(Tail(objs), flds, OrionFieldLoop(flds, Head(objs), st))

\* IOHandlerOrion._read_particle_selection; path is "fast" when the result
\* comes from the GridSelector branch and "general" when it comes from the
\* iteration over the chunks
OrionReadParticleSelection(inst, cs, selclass, flds) ==
  LET st0 == [inst |-> inst, exc |-> "none", greads |-> <<>>,
              rv |-> EmptyMap, path |-> "none"]
  IN IF selclass = "GridSelector"
     THEN IF Len(cs) = 0
          THEN [st0 EXCEPT !.exc = "IndexError"]
          ELSE IF ~(Len(cs) = Len(cs[1]) /\ Len(cs[1]) = 1)
          THEN [st0 EXCEPT !.exc = "RuntimeError"]
          ELSE OrionGridFields(flds, cs[1][1], [st0 EXCEPT !.path = "fast"])
     ELSE OrionGridLoop(Flatten(cs), flds,
                        [st0 EXCEPT !.path = "general",
                                    !.rv = [f \in Range(flds) |-> <<>>]])

\* the chunks of a selection hold grids with particles
OChunkSet == {s \in SeqsUpTo({2, 3}, MaxOGridsPerChunk) : NoDup(s)}

OChunkLists == {cs \in SeqsUpTo(OChunkSet, MaxOChunks) : NoDup(Flatten(cs))}

OFieldRequests ==
  SubLists(<< <<"io", "particle_mass">>, <<"io", "particle_id">> >>, 2)

SelectorClasses == {"GridSelector", "RegionSelector"}

NoCall == [op |-> "none", fast |-> FALSE, pre |-> FALSE, exc |-> "none",
           path |-> "none", greads |-> <<>>, nfields |-> 0, grid |-> 0,
           rvkeys |-> 0, hit |-> FALSE]

InitOrion ==
  /\ starExists \in BOOLEAN
  /\ cached_lines = FALSE
  /\ particle_filename_ = "None"
  /\ particle_index_set = FALSE
  /\ lineReads = 0
  /\ resolves = 0
  /\ parses = 0
  /\ oopen = 0
  /\ oneeded = FALSE
  /\ ocalls = 0
  /\ olast = NoCall

SetInstance(inst) ==
  /\ cached_lines' = inst.cached
  /\ particle_filename_' = inst.filename
  /\ particle_index_set' = inst.index_set
  /\ lineReads' = inst.lineReads
  /\ resolves' = inst.resolves
  /\ parses' = inst.parses
  /\ oopen' = inst.open
  /\ oneeded' = inst.needed

\* a call of IOHandlerOrion._read_particles(grid, field)
OrionParticlesCall ==
  /\ ocalls < MaxOCalls
  /\ \E g \in OGridIds, field \in OFieldNames :
     \E r \in {OrionReadParticles(Instance, g, field)} :
       /\ SetInstance(r.inst)
       /\ olast' = [NoCall EXCEPT !.op = "_read_particles", !.exc = r.exc,
                                  !.grid = g,
                                  !.hit = cached_lines
                                            /\ NumberOfParticles(g) # 0]
  /\ ocalls' = ocalls + 1
  /\ UNCHANGED starExists
  /\ UNCHANGED <<fluidVars, partVars>>

\* a call of IOHandlerOrion._read_particle_selection(chunks, selector, fields)
OrionSelectionCall ==
  /\ ocalls < MaxOCalls
  /\ \E cs \in OChunkLists, selclass \in SelectorClasses,
        flds \in OFieldRequests :
     \E r \in {OrionReadParticleSelection(Instance, cs, selclass, flds)} :
       /\ SetInstance(r.inst)
       /\ olast' = [op |-> "_read_particle_selection",
                    fast |-> selclass = "GridSelector",
                    pre |-> Len(cs) = 1 /\ Len(cs[1]) = 1,
                    exc |-> r.exc, path |-> r.path, greads |-> r.greads,
                    nfields |-> Len(flds),
                    grid |-> IF Len(cs) = 1 /\ Len(cs[1]) = 1
                             THEN cs[1][1] ELSE 0,
                    rvkeys |-> Cardinality(DOMAIN r.rv), hit |-> FALSE]
  /\ ocalls' = ocalls + 1
  /\ UNCHANGED starExists
  /\ UNCHANGED <<fluidVars, partVars>>

NextOrion == OrionParticlesCall \/ OrionSelectionCall

(***************************************************************************)
(* The specifications: one per reader; the state of the other readers is   *)
(* idle and does not change.                                               *)
(***************************************************************************)
IdleFluid ==
  /\ chunks = <<>> /\ fields = <<>> /\ selector = <<>> /\ size = 0
  /\ fpc = "idle" /\ ci = 0 /\ ind = 0 /\ rv = EmptyMap
  /\ nwritten = EmptyMap /\ wlog = <<>> /\ reads = {} /\ unclosed = {}

IdlePart ==
  /\ pdata = <<>> /\ dimensionality = 3 /\ pchunks = <<>> /\ pfields = <<>>
  /\ pselector = {} /\ ppc = "idle" /\ pci = 0 /\ prv = EmptyMap
  /\ produced = EmptyMap /\ pcalls = {} /\ popen = 0

IdleOrion ==
  /\ starExists = TRUE /\ cached_lines = FALSE /\ particle_filename_ = "None"
  /\ particle_index_set = FALSE /\ lineReads = 0 /\ resolves = 0
  /\ parses = 0 /\ oopen = 0 /\ oneeded = FALSE /\ ocalls = 0
  /\ olast = NoCall

FluidInit == InitFluid /\ IdlePart /\ IdleOrion

SpecFluid == FluidInit /\ [][NextFluid]_vars

PartInit == InitPart /\ IdleFluid /\ IdleOrion

SpecPart == PartInit /\ [][NextPart]_vars

OrionInit == InitOrion /\ IdleFluid /\ IdlePart

SpecOrion == OrionInit /\ [][NextOrion]_vars

(***************************************************************************)
(* Properties of the fluid reader.                                         *)
(***************************************************************************)
FieldPos(f) == CHOOSE k \in 1..Len(FieldOrder) : FieldOrder[k] = f

\* the bytes of the block of field f of grid g, by the file layout
BlockStart(g, f) == GridOffset[g] + (FieldPos(f) - 1) * GridCells[g] * BPR

BlockBytes(start, nbytes) == start..(start + nbytes - 1)

\* the grids that come before grid g in chunk visitation order
SelectedBefore(cs, g) ==
  LET gs == Flatten(cs)
      p == CHOOSE i \in 1..Len(gs) : gs[i] = g
      RECURSIVE Sum(_)
      Sum(i) == IF i = 0 THEN 0 ELSE selector[gs[i]] + Sum(i - 1)
  IN Sum(p - 1)

\* C1: every block read by _read_chunk_data is the block of a requested
\* field, taken at grid_offset + k * cell_count * item_width for
\* cell_count items, whatever else is requested and whatever was read
\* before it in the same file: it is the block a read of all the fields
\* returns for that field, and no byte of an unrequested field is read.
C1_SelectiveRead ==
  /\ \A r \in reads :
       /\ InSeq(r.field, fields)
       /\ r.start = BlockStart(r.grid, r.field)
       /\ r.nbytes = GridCells[r.grid] * BPR
       /\ \A c \in 1..ci :
            InSeq(r.grid, chunks[c]) =>
              LET full == ReadChunkData(chunks[c], FieldOrder, {}).data
              IN full[r.grid][r.field] = [start |-> r.start,
                                          nbytes |-> r.nbytes]
       /\ \A k \in 1..Len(FieldOrder) :
            ~InSeq(FieldOrder[k], fields) =>
              BlockBytes(r.start, r.nbytes)
                \cap BlockBytes(BlockStart(r.grid, FieldOrder[k]),
                                GridCells[r.grid] * BPR) = {}
  /\ \A c \in 1..ci : \A i \in 1..Len(chunks[c]) :
       (fpc \in {"loop", "returned", "KeyError"}
          /\ GridFile[chunks[c][i]] # "None") =>
         \A k \in 1..Len(fields) :
            \E r \in reads : r.grid = chunks[c][i] /\ r.field = fields[k]

\* grid 1 lies after grid 2 in f1 and is visited first; only the last and
\* the first field of the field order are requested
C1_Witness ==
  /\ fields = <<FieldOrder[3], FieldOrder[1]>>
  /\ ci >= 1
  /\ chunks[1] = <<1, 2>>
  /\ \E r \in reads : r.grid = 1 /\ r.field = FieldOrder[3]
  /\ \E r \in reads : r.grid = 2 /\ r.field = FieldOrder[1]

\* C3: when _read_fluid_selection returns, the output index equals size and
\* every requested field has had exactly size values written, one at each
\* index of its output array.
C3_ExactFill ==
  fpc = "returned" =>
    /\ ind = size
    /\ \A f \in Range(fields) :
         /\ nwritten[f] = size
         /\ Len(rv[f]) = size
         /\ \A i \in 1..size : rv[f][i] # -1

\* a returned read of two fields over grids of which one selects nothing
C3_Witness ==
  /\ fpc = "returned"
  /\ Len(fields) = 2
  /\ size >= 2
  /\ \E g \in Range(Flatten(chunks)) : selector[g] = 0
  /\ \E g \in Range(Flatten(chunks)) : selector[g] > 0

\* C4: a fluid read, for a non-empty request, of a chunk that holds a grid
\* without a file path completes normally: once such a chunk is consumed
\* (its files opened), the read goes on, and nothing was selected from the
\* grid.
C4_NullPathGridSkipped ==
  \A c \in 1..ci :
    (Len(fields) > 0
       /\ \E i \in 1..Len(chunks[c]) : GridFile[chunks[c][i]] = "None")
      => /\ fpc \in {"loop", "returned", "IOError"} \/ c < ci
         /\ \A i \in 1..Len(wlog) : GridFile[wlog[i].grid] # "None"

\* C5: when _read_chunk_data has returned or raised, no handle that it
\* opened is still open.
C5_HandlesClosed == unclosed = {}

\* C10: every select call writes at the start index that is the sum of the
\* counts of the grids before its grid in chunk visitation order, the same
\* for every field; the output array holds the grid's block there; and the
\* chunks' grid sequences are never reordered.
C10_Layout ==
  \A i \in 1..Len(wlog) :
    LET e == wlog[i]
    IN /\ e.start = SelectedBefore(chunks, e.grid)
       /\ e.nd = selector[e.grid]
       /\ fpc # "ValueError" =>
            \A j \in (e.start + 1)..(e.start + e.nd) :
               rv[e.field][j] = BlockStart(e.grid, e.field)

C10_VisitOrder == [](C10_Layout) /\ [][chunks' = chunks]_vars

\* grid 1 (later in f1) is visited before grid 2 and both select cells
C10_Witness ==
  /\ fpc = "returned"
  /\ Len(fields) = 2
  /\ Flatten(chunks) = <<4, 1, 2>>
  /\ selector[1] = 2 /\ selector[2] = 1 /\ selector[4] = 1
  /\ Len(wlog) = 6

(***************************************************************************)
(* Properties of the Boxlib particle reader.                               *)
(***************************************************************************)
RECURSIVE ConcatReversed(_)
ConcatReversed(arrs) ==
  IF Len(arrs) = 0 THEN <<>>
  ELSE ConcatReversed(Tail(arrs)) \o Head(arrs).value

\* the _read_particles calls a field needs over a list of grids
RECURSIVE ExpectedCalls(_, _)
ExpectedCalls(gs, key) ==
  IF Len(gs) = 0 THEN <<>>
  ELSE (IF key[1] \in DOMAIN particle_unions
        THEN [i \in 1..Len(particle_unions[key[1]]) |->
                <<Head(gs), particle_unions[key[1]][i]>>]
        ELSE << <<Head(gs), key[1]>> >>)
         \o ExpectedCalls(Tail(gs), key)

UnknownName(name) ==
  ~InSeq(name, known_int_fields) /\ ~InSeq(name, known_real_fields)

\* C2: the array accumulated for a field is the concatenation of the
\* arrays _read_particles produced for it, taken in the reverse of the
\* order of production, each array unchanged; on return they are one array
\* per chunk, grid and subtype, produced in that order.
C2_ReversedConcatenation ==
  /\ \A f \in DOMAIN prv : prv[f] = ConcatReversed(produced[f])
  /\ ppc = "returned" =>
       \A f \in DOMAIN prv :
          [i \in 1..Len(produced[f]) |->
             <<produced[f][i].grid, produced[f][i].ftype>>]
            = ExpectedCalls(Flatten(pchunks), f)

\* a returned read of a union field over grid 1 then grid 2, every particle
\* set of which yields a non-empty array
C2_Witness ==
  /\ ppc = "returned"
  /\ Flatten(pchunks) = <<1, 2>>
  /\ <<"all", "particle_mass">> \in DOMAIN prv
  /\ Len(produced[<<"all", "particle_mass">>]) = 4
  /\ \A i \in 1..4 : Len(produced[<<"all", "particle_mass">>][i].value) > 0
  /\ Len(prv[<<"all", "particle_mass">>]) >= 5

\* C8: a _read_particles call with a name that is in neither field table of
\* the header never returns: it ends in a lookup failure.
C8_UnknownNameFails ==
  \A c \in pcalls :
    UnknownName(c.name) => c.kind \notin {"array", "None"}

(***************************************************************************)
(* Properties of the Orion text particle reader.                           *)
(***************************************************************************)
\* C6: the lines of the particle file are read at most once on an instance;
\* they are read by the first call for a grid with particles, and a call
\* made once the cache is set reads no lines.
C6_LinesReadInv ==
  /\ lineReads <= 1
  /\ cached_lines <=> lineReads = 1
  /\ oneeded <=> lineReads = 1

C7_ComputedOnce == resolves <= 1 /\ parses <= 1

\* C9: a _read_particle_selection call with a GridSelector and chunks that
\* are not exactly one chunk of one grid fails with RuntimeError and never
\* enters the general path; with exactly one chunk of one grid it reads
\* only that grid, once per requested field.
C9_FastPathGuard ==
  (olast.op = "_read_particle_selection" /\ olast.fast) =>
    /\ ~olast.pre => olast.exc = "RuntimeError" /\ olast.path = "none"
    /\ olast.pre =>
         /\ olast.path = "fast"
         /\ \A i \in 1..Len(olast.greads) : olast.greads[i][1] = olast.grid
         /\ olast.exc = "none" => Len(olast.greads) = olast.nfields

====
